---- MODULE Spec2Model ----
(***************************************************************************)
(* Model of FiniteDifferenceTypes.h: the SolverType, SpaceDiscretizerType  *)
(* and BoundaryConditionType enumerations, getNumberOfSteps, and the value *)
(* classes BoundaryCondition, BoundaryCondition1D, BoundaryCondition2D,    *)
(* FiniteDifferenceInput1D and FiniteDifferenceInput2D with their          *)
(* constructors, defaulted assignment operators and destructors.           *)
(*                                                                         *)
(* A caller holds one live object at a time (obj); every operation of the  *)
(* header acts on it and records its call in last.                         *)
(* Reals (double) are modelled by small integers, a MemoryBuffer by its    *)
(* size.                                                                   *)
(***************************************************************************)
EXTENDS Integers, FiniteSets, Sequences, TLC

VARIABLES obj, last

vars == <<obj, last>>

(***************************************************************************)
(* Bounds of the model                                                     *)
(***************************************************************************)
MaxLen == 3
MaxValue == 1
MaxDt == 1

(***************************************************************************)
(* enum class SolverType                                                   *)
(***************************************************************************)
SolverTypeNull == 0
ExplicitEuler == 1
ImplicitEuler == 2
CrankNicolson == 3
RungeKuttaRalston == 4
RungeKutta3 == 5
RungeKutta4 == 6
RungeKuttaThreeEight == 7
RungeKuttaGaussLegendre4 == 8
RichardsonExtrapolation2 == 9
RichardsonExtrapolation3 == 10
AdamsBashforth2 == 11
AdamsMouldon2 == 12
__BEGIN__ == 1

END_OffByOne == AdamsMouldon2

__END__ == 13

\* the twelve named solvers
NamedSolverTypes ==
    {ExplicitEuler, ImplicitEuler, CrankNicolson,
     RungeKuttaRalston, RungeKutta3, RungeKutta4, RungeKuttaThreeEight,
     RungeKuttaGaussLegendre4,
     RichardsonExtrapolation2, RichardsonExtrapolation3,
     AdamsBashforth2, AdamsMouldon2}

\* every value an enumerator of SolverType denotes
SolverTypes == NamedSolverTypes \cup {SolverTypeNull, __BEGIN__, __END__}

\* mutant: the AdamsMouldon2 label is missing from the switch
getNumberOfSteps_NoMoulton(solverType) ==
    CASE solverType = AdamsBashforth2 -> 2
      [] OTHER -> 1

\* mutant: the switch has a label for the end sentinel
getNumberOfSteps_EndIsMultistep(solverType) ==
    CASE solverType = AdamsBashforth2 -> 2
      [] solverType = AdamsMouldon2 -> 2
      [] solverType = __END__ -> 2
      [] OTHER -> 1

getNumberOfSteps(solverType) ==
    CASE solverType = AdamsBashforth2 -> 2
      [] solverType = AdamsMouldon2 -> 2
      [] OTHER -> 1

(***************************************************************************)
(* enum class SpaceDiscretizerType                                         *)
(***************************************************************************)
SpaceDiscretizerTypeNull == 0
Centered == 1
Upwind == 2
LaxWendroff == 3

SpaceDiscretizerTypes == {SpaceDiscretizerTypeNull, Centered, Upwind, LaxWendroff}

(***************************************************************************)
(* enum class BoundaryConditionType                                        *)
(***************************************************************************)
BoundaryConditionTypeNull == 0
Dirichlet == 1
Neumann == 2
Periodic == 3

BoundaryConditionTypes == {BoundaryConditionTypeNull, Dirichlet, Neumann, Periodic}

(***************************************************************************)
(* struct BoundaryCondition                                                *)
(***************************************************************************)
DefaultType_Dirichlet == Dirichlet

\* default argument of the constructor's type parameter
DefaultType == Neumann

\* default argument of the constructor's value parameter (0.0)
DefaultValue == 0

BoundaryCondition(type, value) == [type |-> type, value |-> value]

\* BoundaryCondition(), the default of every BoundaryCondition parameter
DefaultBoundaryCondition == BoundaryCondition(DefaultType, DefaultValue)

(***************************************************************************)
(* class BoundaryCondition1D                                               *)
(***************************************************************************)
\* mutant: right initialised from left
BoundaryCondition1D_LeftTwice(left, right) == [left |-> left, right |-> left]

BoundaryCondition1D(left, right) == [left |-> left, right |-> right]

(***************************************************************************)
(* class BoundaryCondition2D : public BoundaryCondition1D                  *)
(***************************************************************************)
\* mutant: down and up initialised from each other's argument
BoundaryCondition2D_Swapped(left, right, down, up) ==
    LET base == BoundaryCondition1D(left, right)
    IN  [left |-> base.left, right |-> base.right, down |-> up, up |-> down]

BoundaryCondition2D(left, right, down, up) ==
    LET base == BoundaryCondition1D(left, right)
    IN  [left |-> base.left, right |-> base.right, down |-> down, up |-> up]

\* the BoundaryCondition1D base sub-object of a BoundaryCondition2D
Base1D(bc2) == [left |-> bc2.left, right |-> bc2.right]

(***************************************************************************)
(* MemoryBuffer (Types.h): represented by its size                         *)
(***************************************************************************)
MemoryBuffer(size) == [size |-> size]

(***************************************************************************)
(* struct FiniteDifferenceInput1D                                          *)
(***************************************************************************)
\* mutant: solverType is not initialised from the argument
FiniteDifferenceInput1D_NullSolver(dt, grid, velocity, diffusion, solverType, spaceDiscretizerType, boundaryConditions) ==
    [dt |-> dt, grid |-> grid, velocity |-> velocity, diffusion |-> diffusion,
     solverType |-> SolverTypeNull,
     spaceDiscretizerType |-> spaceDiscretizerType,
     boundaryConditions |-> boundaryConditions]

\* mutant: dt initialised with its magnitude
FiniteDifferenceInput1D_AbsDt(dt, grid, velocity, diffusion, solverType, spaceDiscretizerType, boundaryConditions) ==
    [dt |-> IF dt < 0 THEN -dt ELSE dt,
     grid |-> grid, velocity |-> velocity, diffusion |-> diffusion,
     solverType |-> solverType,
     spaceDiscretizerType |-> spaceDiscretizerType,
     boundaryConditions |-> boundaryConditions]

\* mutant: diffusion initialised from velocity
FiniteDifferenceInput1D_VelocityTwice(dt, grid, velocity, diffusion, solverType, spaceDiscretizerType, boundaryConditions) ==
    [dt |-> dt, grid |-> grid, velocity |-> velocity, diffusion |-> velocity,
     solverType |-> solverType,
     spaceDiscretizerType |-> spaceDiscretizerType,
     boundaryConditions |-> boundaryConditions]

FiniteDifferenceInput1D(dt, grid, velocity, diffusion, solverType, spaceDiscretizerType, boundaryConditions) ==
    [dt |-> dt, grid |-> grid, velocity |-> velocity, diffusion |-> diffusion,
     solverType |-> solverType,
     spaceDiscretizerType |-> spaceDiscretizerType,
     boundaryConditions |-> boundaryConditions]

(***************************************************************************)
(* struct FiniteDifferenceInput2D                                          *)
(***************************************************************************)
FiniteDifferenceInput2D(dt, xGrid, yGrid, xVelocity, yVelocity, diffusion, solverType, spaceDiscretizerType, boundaryConditions) ==
    [dt |-> dt, xGrid |-> xGrid, yGrid |-> yGrid,
     xVelocity |-> xVelocity, yVelocity |-> yVelocity, diffusion |-> diffusion,
     solverType |-> solverType,
     spaceDiscretizerType |-> spaceDiscretizerType,
     boundaryConditions |-> boundaryConditions]

(***************************************************************************)
(* Defaulted copy/move assignment: every member takes the value of the     *)
(* right-hand side's member.                                               *)
(***************************************************************************)
\* mutant: dt is left out of the member-wise assignment
CopyAssign_KeepsDt(lhs, rhs) ==
    IF "dt" \in DOMAIN lhs THEN [rhs EXCEPT !.dt = lhs.dt] ELSE rhs

CopyAssign(lhs, rhs) == rhs

(***************************************************************************)
(* Inputs                                                                  *)
(***************************************************************************)
Values == 0..MaxValue
Dts == (-1)..MaxDt
Sizes1D == 0..MaxLen
Sizes2D == {MaxLen - 1, MaxLen}

BoundaryConditions ==
    {BoundaryCondition(t, v) : t \in BoundaryConditionTypes, v \in Values}

\* boundary conditions handed to the configuration constructors
AxisBoundaryConditions ==
    {BoundaryCondition(t, DefaultValue) : t \in {Neumann, Periodic}}

Args1D ==
    [dt : Dts,
     grid : {MemoryBuffer(n) : n \in Sizes1D},
     velocity : {MemoryBuffer(n) : n \in Sizes1D},
     diffusion : {MemoryBuffer(n) : n \in Sizes1D},
     solverType : SolverTypes,
     spaceDiscretizerType : SpaceDiscretizerTypes,
     boundaryConditions :
         {BoundaryCondition1D(l, r) : l \in AxisBoundaryConditions,
                                      r \in AxisBoundaryConditions}]

Args2D ==
    [dt : Dts,
     xGrid : {MemoryBuffer(n) : n \in Sizes2D},
     yGrid : {MemoryBuffer(n) : n \in Sizes2D},
     xVelocity : {MemoryBuffer(n) : n \in Sizes2D},
     yVelocity : {MemoryBuffer(n) : n \in Sizes2D},
     diffusion : {MemoryBuffer(n) : n \in Sizes2D},
     solverType : SolverTypes,
     spaceDiscretizerType : SpaceDiscretizerTypes,
     boundaryConditions :
         {BoundaryCondition2D(l, r, d, u) : l \in AxisBoundaryConditions,
                                            r \in AxisBoundaryConditions,
                                            d \in AxisBoundaryConditions,
                                            u \in AxisBoundaryConditions}]

Make1D(a) ==
    FiniteDifferenceInput1D(a.dt, a.grid, a.velocity, a.diffusion,
                            a.solverType, a.spaceDiscretizerType,
                            a.boundaryConditions)

Make2D(a) ==
    FiniteDifferenceInput2D(a.dt, a.xGrid, a.yGrid, a.xVelocity, a.yVelocity,
                            a.diffusion, a.solverType, a.spaceDiscretizerType,
                            a.boundaryConditions)

\* right-hand sides of the assignments
RhsBuffer == MemoryBuffer(MaxLen)
RhsSolverTypes == {ExplicitEuler, AdamsMouldon2}

Rhs1D ==
    {Make1D([dt |-> dt, grid |-> RhsBuffer, velocity |-> RhsBuffer,
             diffusion |-> RhsBuffer, solverType |-> s,
             spaceDiscretizerType |-> Centered,
             boundaryConditions |->
                 BoundaryCondition1D(DefaultBoundaryCondition,
                                     DefaultBoundaryCondition)]) :
        dt \in Dts, s \in RhsSolverTypes}

Rhs2D ==
    {Make2D([dt |-> dt, xGrid |-> RhsBuffer, yGrid |-> RhsBuffer,
             xVelocity |-> RhsBuffer, yVelocity |-> RhsBuffer,
             diffusion |-> RhsBuffer, solverType |-> s,
             spaceDiscretizerType |-> Centered,
             boundaryConditions |->
                 BoundaryCondition2D(DefaultBoundaryCondition,
                                     DefaultBoundaryCondition,
                                     DefaultBoundaryCondition,
                                     DefaultBoundaryCondition)]) :
        dt \in Dts, s \in RhsSolverTypes}

(***************************************************************************)
(* State                                                                   *)
(***************************************************************************)
NoObject == [kind |-> "none"]
NoCall == [op |-> "none"]

ConfigKinds == {"FiniteDifferenceInput1D", "FiniteDifferenceInput2D"}

Init ==
    /\ obj = NoObject
    /\ last = NoCall

(***************************************************************************)
(* Operations                                                              *)
(***************************************************************************)
\* a variable of type SolverType is given one of the enumerators
DeclareSolverType ==
    /\ obj.kind = "none"
    /\ \E s \in SolverTypes :
           /\ obj' = [kind |-> "SolverType", v |-> s]
           /\ last' = [op |-> "SolverType", args |-> [solverType |-> s]]

\* getNumberOfSteps is called on the live solver type: the variable itself
\* or the solverType field of the live configuration
CallGetNumberOfSteps ==
    /\ obj.kind \in {"SolverType"} \cup ConfigKinds
    /\ LET solverType == IF obj.kind = "SolverType" THEN obj.v ELSE obj.v.solverType
       IN  last' = [op |-> "getNumberOfSteps",
                    args |-> [solverType |-> solverType],
                    status |-> "returned",
                    ret |-> getNumberOfSteps(solverType)]
    /\ UNCHANGED obj

\* BoundaryCondition(), BoundaryCondition(type), BoundaryCondition(type, value)
NewBoundaryCondition ==
    /\ obj.kind = "none"
    /\ \E n \in 0..2, type \in BoundaryConditionTypes, value \in Values :
         LET t == IF n >= 1 THEN type ELSE DefaultType
             v == IF n >= 2 THEN value ELSE DefaultValue
         IN  /\ obj' = [kind |-> "BoundaryCondition", v |-> BoundaryCondition(t, v)]
             /\ last' = [op |-> "BoundaryCondition", nargs |-> n,
                         args |-> [type |-> t, value |-> v]]

\* BoundaryCondition1D with its first n arguments given
NewBoundaryCondition1D ==
    /\ obj.kind = "none"
    /\ \E n \in 0..2, left \in BoundaryConditions, right \in BoundaryConditions :
         LET l == IF n >= 1 THEN left ELSE DefaultBoundaryCondition
             r == IF n >= 2 THEN right ELSE DefaultBoundaryCondition
         IN  /\ obj' = [kind |-> "BoundaryCondition1D",
                        v |-> BoundaryCondition1D(l, r)]
             /\ last' = [op |-> "BoundaryCondition1D", nargs |-> n,
                         args |-> [left |-> l, right |-> r]]

\* BoundaryCondition2D with its first n arguments given
NewBoundaryCondition2D ==
    /\ obj.kind = "none"
    /\ \E n \in 0..4, left \in BoundaryConditions, right \in BoundaryConditions,
          down \in BoundaryConditions, up \in BoundaryConditions :
         LET l == IF n >= 1 THEN left ELSE DefaultBoundaryCondition
             r == IF n >= 2 THEN right ELSE DefaultBoundaryCondition
             d == IF n >= 3 THEN down ELSE DefaultBoundaryCondition
             u == IF n >= 4 THEN up ELSE DefaultBoundaryCondition
         IN  /\ obj' = [kind |-> "BoundaryCondition2D",
                        v |-> BoundaryCondition2D(l, r, d, u)]
             /\ last' = [op |-> "BoundaryCondition2D", nargs |-> n,
                         args |-> [left |-> l, right |-> r, down |-> d, up |-> u]]

NewFiniteDifferenceInput1D ==
    /\ obj.kind = "none"
    /\ \E a \in Args1D :
           /\ obj' = [kind |-> "FiniteDifferenceInput1D", v |-> Make1D(a)]
           /\ last' = [op |-> "FiniteDifferenceInput1D", args |-> a]

NewFiniteDifferenceInput2D ==
    /\ obj.kind = "none"
    /\ \E a \in Args2D :
           /\ obj' = [kind |-> "FiniteDifferenceInput2D", v |-> Make2D(a)]
           /\ last' = [op |-> "FiniteDifferenceInput2D", args |-> a]

\* operator= of the live object's class, from an object rhs of that class
Assign(kind, rhs) ==
    /\ obj.kind = kind
    /\ obj' = [obj EXCEPT !.v = CopyAssign(obj.v, rhs)]
    /\ last' = [op |-> "operator=", args |-> [rhs |-> rhs]]

AssignBoundaryCondition ==
    \E rhs \in BoundaryConditions : Assign("BoundaryCondition", rhs)

AssignBoundaryCondition1D ==
    \E b \in BoundaryConditions :
        Assign("BoundaryCondition1D", BoundaryCondition1D(b, b))

AssignBoundaryCondition2D ==
    \E b \in BoundaryConditions :
        Assign("BoundaryCondition2D", BoundaryCondition2D(b, b, b, b))

AssignFiniteDifferenceInput1D ==
    \E rhs \in Rhs1D : Assign("FiniteDifferenceInput1D", rhs)

AssignFiniteDifferenceInput2D ==
    \E rhs \in Rhs2D : Assign("FiniteDifferenceInput2D", rhs)

\* a public, non-const data member of the live configuration is written
WriteDt ==
    /\ obj.kind \in ConfigKinds
    /\ \E dt \in Dts :
           /\ obj' = [obj EXCEPT !.v.dt = dt]
           /\ last' = [op |-> "write", args |-> [field |-> "dt", value |-> dt]]

\* the live object goes out of scope
Destroy ==
    /\ obj.kind # "none"
    /\ obj' = NoObject
    /\ last' = [op |-> "destructor"]

Next ==
    \/ DeclareSolverType
    \/ CallGetNumberOfSteps
    \/ NewBoundaryCondition
    \/ NewBoundaryCondition1D
    \/ NewBoundaryCondition2D
    \/ NewFiniteDifferenceInput1D
    \/ NewFiniteDifferenceInput2D
    \/ AssignBoundaryCondition
    \/ AssignBoundaryCondition1D
    \/ AssignBoundaryCondition2D
    \/ AssignFiniteDifferenceInput1D
    \/ AssignFiniteDifferenceInput2D
    \/ WriteDt
    \/ Destroy

Spec == Init /\ [][Next]_vars

(***************************************************************************)
(* Properties                                                              *)
(***************************************************************************)
IsConfig(o) == o.kind \in ConfigKinds
ConstructedConfig == last.op \in ConfigKinds
CalledGetNumberOfSteps == last.op = "getNumberOfSteps"
SentinelSolverTypes == {SolverTypeNull, __BEGIN__, __END__}
IsPeriodic(bc) == bc.type = Periodic

\* C1: getNumberOfSteps returns for every solver type, and returns 2
\* exactly for AdamsBashforth2 and AdamsMouldon2 and 1 for every other value.
C1_StepOrder ==
    CalledGetNumberOfSteps =>
        /\ last.status = "returned"
        /\ last.args.solverType \in {11, 12} => last.ret = 2
        /\ last.args.solverType \in (0..13) \ {11, 12} => last.ret = 1

C1_Witness ==
    /\ CalledGetNumberOfSteps
    /\ obj.kind = "SolverType"
    /\ last.args.solverType = AdamsMouldon2
    /\ last.ret = 2

\* C2 as stated: getNumberOfSteps rejects Null, __BEGIN__ and __END__ with
\* UnsupportedSolver and never maps them to a default result.
C2_Original ==
    (CalledGetNumberOfSteps /\ last.args.solverType \in SentinelSolverTypes) =>
        last.status = "UnsupportedSolver"

\* C2 amended: getNumberOfSteps rejects nothing; Null, __BEGIN__ and __END__
\* take the default branch and yield 1, like every named single-step solver.
C2_SentinelsDefaulted ==
    CalledGetNumberOfSteps =>
        /\ last.status = "returned"
        /\ last.args.solverType \in SentinelSolverTypes => last.ret = 1

C2_Witness ==
    /\ CalledGetNumberOfSteps
    /\ last.args.solverType = SolverTypeNull
    /\ last.status = "returned"
    /\ last.ret = 1

\* C3 as stated: no constructed configuration holds a Null solver type or a
\* Null space discretizer type.
C3_Original ==
    IsConfig(obj) =>
        /\ obj.v.solverType # SolverTypeNull
        /\ obj.v.spaceDiscretizerType # SpaceDiscretizerTypeNull

\* C3 amended: the configuration constructors always produce an object and
\* store solverType and spaceDiscretizerType as given, Null included.
C3_TypesStored ==
    ConstructedConfig =>
        /\ obj.kind = last.op
        /\ obj.v.solverType = last.args.solverType
        /\ obj.v.spaceDiscretizerType = last.args.spaceDiscretizerType

C3_Witness ==
    /\ last.op = "FiniteDifferenceInput1D"
    /\ last.args.solverType = SolverTypeNull
    /\ obj.kind = "FiniteDifferenceInput1D"
    /\ obj.v.solverType = SolverTypeNull
    /\ obj.v.spaceDiscretizerType = SpaceDiscretizerTypeNull

\* C4 as stated: every constructed configuration has dt > 0.
C4_Original == IsConfig(obj) => obj.v.dt > 0

\* C4 amended: the configuration constructors always produce an object and
\* store dt as given, whatever its sign.
C4_DtStored ==
    ConstructedConfig =>
        /\ obj.kind = last.op
        /\ obj.v.dt = last.args.dt

C4_Witness ==
    /\ last.op = "FiniteDifferenceInput1D"
    /\ last.args.dt < 0
    /\ obj.kind = "FiniteDifferenceInput1D"
    /\ obj.v.dt < 0

\* C5 as stated: every constructed FiniteDifferenceInput1D has grid, velocity
\* and diffusion of one length N >= 3.
C5_Original ==
    obj.kind = "FiniteDifferenceInput1D" =>
        /\ obj.v.grid.size >= 3
        /\ obj.v.velocity.size = obj.v.grid.size
        /\ obj.v.diffusion.size = obj.v.grid.size

\* C5 amended: the FiniteDifferenceInput1D constructor always produces an
\* object whose grid, velocity and diffusion have the lengths of the buffers
\* given, whether or not they agree or reach 3.
C5_LengthsStored ==
    last.op = "FiniteDifferenceInput1D" =>
        /\ obj.kind = "FiniteDifferenceInput1D"
        /\ obj.v.grid.size = last.args.grid.size
        /\ obj.v.velocity.size = last.args.velocity.size
        /\ obj.v.diffusion.size = last.args.diffusion.size

C5_Witness ==
    /\ last.op = "FiniteDifferenceInput1D"
    /\ obj.kind = "FiniteDifferenceInput1D"
    /\ obj.v.grid.size = 2
    /\ obj.v.velocity.size = 3
    /\ obj.v.diffusion.size = 1

\* the sides of one axis are both periodic or both not
Paired(a, b) == IsPeriodic(a) <=> IsPeriodic(b)

\* C6 as stated: in every BoundaryCondition1D and BoundaryCondition2D, alone
\* or held by a configuration, left is Periodic iff right is, and down is
\* Periodic iff up is.
C6_Original ==
    /\ obj.kind = "BoundaryCondition1D" => Paired(obj.v.left, obj.v.right)
    /\ obj.kind = "BoundaryCondition2D" =>
           Paired(obj.v.left, obj.v.right) /\ Paired(obj.v.down, obj.v.up)
    /\ obj.kind = "FiniteDifferenceInput1D" =>
           Paired(obj.v.boundaryConditions.left, obj.v.boundaryConditions.right)
    /\ obj.kind = "FiniteDifferenceInput2D" =>
           /\ Paired(obj.v.boundaryConditions.left, obj.v.boundaryConditions.right)
           /\ Paired(obj.v.boundaryConditions.down, obj.v.boundaryConditions.up)

\* C6 amended: no constructor rejects a mixed pair; each side of a constructed
\* BoundaryCondition1D or BoundaryCondition2D, alone or held by a
\* configuration, has the type of the argument given for that side, so an
\* axis is paired exactly when its arguments were.
C6_PairingAsGiven ==
    /\ last.op = "BoundaryCondition1D" =>
           /\ obj.kind = "BoundaryCondition1D"
           /\ obj.v.left.type = last.args.left.type
           /\ obj.v.right.type = last.args.right.type
    /\ last.op = "BoundaryCondition2D" =>
           /\ obj.kind = "BoundaryCondition2D"
           /\ obj.v.left.type = last.args.left.type
           /\ obj.v.right.type = last.args.right.type
           /\ obj.v.down.type = last.args.down.type
           /\ obj.v.up.type = last.args.up.type
    /\ last.op = "FiniteDifferenceInput1D" =>
           /\ obj.kind = "FiniteDifferenceInput1D"
           /\ obj.v.boundaryConditions.left.type = last.args.boundaryConditions.left.type
           /\ obj.v.boundaryConditions.right.type = last.args.boundaryConditions.right.type
    /\ last.op = "FiniteDifferenceInput2D" =>
           /\ obj.kind = "FiniteDifferenceInput2D"
           /\ obj.v.boundaryConditions.left.type = last.args.boundaryConditions.left.type
           /\ obj.v.boundaryConditions.right.type = last.args.boundaryConditions.right.type
           /\ obj.v.boundaryConditions.down.type = last.args.boundaryConditions.down.type
           /\ obj.v.boundaryConditions.up.type = last.args.boundaryConditions.up.type

C6_Witness ==
    /\ last.op = "BoundaryCondition1D"
    /\ obj.kind = "BoundaryCondition1D"
    /\ obj.v.left.type = Periodic
    /\ obj.v.right.type = Dirichlet

\* C7 as stated: while a configuration object lives, nothing changes any of
\* its fields.
C7_Original ==
    [][(IsConfig(obj) /\ obj'.kind = obj.kind) => obj'.v = obj.v]_vars

\* C7 amended: a live configuration object is left unchanged by its use as
\* the input of getNumberOfSteps; an assignment replaces every field by the
\* right-hand side's, and a write to dt replaces dt and nothing else.
C7_ReadOnlyUseOnly ==
    [][(IsConfig(obj) /\ obj'.kind = obj.kind) =>
          \/ last'.op = "getNumberOfSteps" /\ obj'.v = obj.v
          \/ last'.op = "operator=" /\ obj'.v = last'.args.rhs
          \/ last'.op = "write" /\ obj'.v = [obj.v EXCEPT !.dt = last'.args.value]
      ]_vars

C7_Witness ==
    /\ IsConfig(obj)
    /\ last.op = "operator="
    /\ obj.v = last.args.rhs
    /\ obj.v.solverType = AdamsMouldon2

\* C8: BoundaryCondition() is Neumann with value 0, BoundaryCondition(type)
\* has value 0, and a default-constructed BoundaryCondition1D or
\* BoundaryCondition2D has every side Neumann with value 0.
C8_Defaults ==
    LET Neumann0 == [type |-> 2, value |-> 0]
    IN  /\ (last.op = "BoundaryCondition" /\ last.nargs = 0) => obj.v = Neumann0
        /\ (last.op = "BoundaryCondition" /\ last.nargs = 1) => obj.v.value = 0
        /\ (last.op = "BoundaryCondition1D" /\ last.nargs = 0) =>
               obj.v.left = Neumann0 /\ obj.v.right = Neumann0
        /\ (last.op = "BoundaryCondition2D" /\ last.nargs = 0) =>
               /\ obj.v.left = Neumann0 /\ obj.v.right = Neumann0
               /\ obj.v.down = Neumann0 /\ obj.v.up = Neumann0

C8_Witness ==
    /\ last.op = "BoundaryCondition2D"
    /\ last.nargs = 0
    /\ obj.kind = "BoundaryCondition2D"
    /\ obj.v.up.type = Neumann

\* C9: BoundaryCondition2D(l, r, d, u) holds left = l, right = r, down = d,
\* up = u, its base part is BoundaryCondition1D(l, r), and the configuration
\* constructors store every argument in the field of the same name.
C9_ArgumentsStored ==
    /\ last.op = "BoundaryCondition2D" =>
           /\ obj.v.left = last.args.left
           /\ obj.v.right = last.args.right
           /\ obj.v.down = last.args.down
           /\ obj.v.up = last.args.up
           /\ Base1D(obj.v) = [left |-> last.args.left, right |-> last.args.right]
    /\ ConstructedConfig =>
           /\ obj.kind = last.op
           /\ \A f \in DOMAIN last.args : obj.v[f] = last.args[f]
           /\ DOMAIN obj.v = DOMAIN last.args

C9_Witness ==
    /\ last.op = "BoundaryCondition2D"
    /\ last.nargs = 4
    /\ obj.kind = "BoundaryCondition2D"
    /\ Cardinality({obj.v.left, obj.v.right, obj.v.down, obj.v.up}) = 4

\* C10: the twelve named solvers have pairwise distinct values, which are
\* exactly the integers from __BEGIN__ up to but excluding __END__ (1..12);
\* Null (0) is outside, __END__ (13) is no named solver, and __BEGIN__ has
\* the value of ExplicitEuler.
C10_HalfOpenRange ==
    /\ Cardinality(NamedSolverTypes) = 12
    /\ NamedSolverTypes = 1..12
    /\ SolverTypeNull = 0 /\ SolverTypeNull < __BEGIN__
    /\ __END__ = 13 /\ __END__ \notin NamedSolverTypes
    /\ __BEGIN__ = ExplicitEuler
    /\ obj.kind = "SolverType" =>
           (obj.v \in NamedSolverTypes <=> (__BEGIN__ <= obj.v /\ obj.v < __END__))

C10_Witness ==
    /\ obj.kind = "SolverType"
    /\ obj.v = __BEGIN__
    /\ obj.v = ExplicitEuler
    /\ obj.v \in NamedSolverTypes

TypeOK ==
    /\ obj.kind \in {"none", "SolverType", "BoundaryCondition", "BoundaryCondition1D",
                     "BoundaryCondition2D"} \cup ConfigKinds
    /\ last.op \in {"none", "SolverType", "getNumberOfSteps", "BoundaryCondition",
                    "BoundaryCondition1D", "BoundaryCondition2D",
                    "FiniteDifferenceInput1D", "FiniteDifferenceInput2D",
                    "operator=", "write", "destructor"}
====
